---- MODULE Spec2Model ----
(***************************************************************************)
(* A model of scriplets: units driven by per-unit Lua programs            *)
(* (src/src/program.rs, src/src/main.rs unit_tick) and moved by the        *)
(* collision-aware integrator handle_movement (src/src/main.rs).           *)
(*                                                                         *)
(* Numbers.  f32 values are modelled in fixed point:                       *)
(*   - speeds are integers in tiles/second, accelerations in tiles/s^2;    *)
(*     every acceleration of a profile is a multiple of TicksPerSecond, so *)
(*     acceleration * x / 60 is exact;                                     *)
(*   - a position is a pair of integers in units of 1/Tile of a tile with  *)
(*     Tile = TicksPerSecond, so speed / 60 tiles is exactly `speed`       *)
(*     position units;                                                     *)
(*   - a rotation is the z angle in whole degrees, 0..359; the profiles    *)
(*     turn by multiples of 90 degrees per tick, where sine and cosine are *)
(*     exact;                                                              *)
(*   - a normalised vector has components in units of 1/UnitScale,         *)
(*     truncated toward zero; PI is PiNum / PiDen;                         *)
(*   - NaN is the f32 not-a-number, which a division by zero produces.     *)
(***************************************************************************)
EXTENDS Integers, Sequences, FiniteSets, TLC

\* ---------------------------------------------------------------- bounds
\* Number of simulation frames explored.
MaxFrames == 2
\* Longest list of profile records a table is built from.
MaxRecords == 3

\* ------------------------------------------------------ program constants
\* The literal 60.0 of handle_movement: ticks per second.
TicksPerSecond == 60
\* Fixed-point PI = PiNum / PiDen.
PiNum == 22
PiDen == 7
\* Denominator of the components of a normalised vector.
UnitScale == 1000
\* Degrees of half a turn, the 180.0 of the degree/radian conversions.
HalfTurn == 180

\* Position units per tile.
Tile == TicksPerSecond

\* Option<T>: None, or Some(v); a Lua nil is None.
None == <<>>

Some(v) == <<v>>

IsSome(o) == o # None

Unwrap(o) == o[1]

\* A Vec2 whose components are NaN.
NaNVec == <<>>

IsNaN(v) == v = NaNVec

\* ------------------------------------------------------------ arithmetic
Abs(x) == IF x < 0 THEN -x ELSE x

Sign(x) == IF x < 0 THEN -1 ELSE IF x > 0 THEN 1 ELSE 0

\* Division truncating toward zero (b > 0 or b < 0, b # 0).
Div(a, b) == Sign(a) * Sign(b) * (Abs(a) \div Abs(b))

RECURSIVE ISqrtIn(_, _, _)
\* Largest n in lo..hi with n * n <= m, by bisection.
ISqrtIn(m, lo, hi) ==
    IF lo >= hi THEN lo
    ELSE LET mid == (lo + hi + 1) \div 2
         IN  IF mid * mid <= m THEN ISqrtIn(m, mid, hi) ELSE ISqrtIn(m, lo, mid - 1)

\* Largest n with n * n <= m (m <= UnitScale * UnitScale).
ISqrt(m) == ISqrtIn(m, 0, UnitScale)

\* f32::clamp(lo, hi), lo <= hi.
Clamp(x, lo, hi) == IF x < lo THEN lo ELSE IF x > hi THEN hi ELSE x

\* Vec2::clamp(NEG_X + NEG_Y, X + Y): each axis independently to [-1, 1].
ClampAxes(v) == <<Clamp(v[1], -1, 1), Clamp(v[2], -1, 1)>>

\* A clamp_length_max that leaves every vector as it is.
ClampLengthMax_unclamped(v) == <<UnitScale * v[1], UnitScale * v[2]>>

\* Vec2::clamp_length_max(1.0), the result in units of 1/UnitScale.
ClampLengthMax(v) ==
    LET len2 == v[1] * v[1] + v[2] * v[2]
        comp(c) == Sign(c) * ISqrt((UnitScale * UnitScale * c * c) \div len2)
    IN  IF len2 > 1 THEN <<comp(v[1]), comp(v[2])>>
        ELSE <<UnitScale * v[1], UnitScale * v[2]>>

NormDeg(d) == d % 360

\* cos and sin of a multiple of 90 degrees.
Cos(d) == CASE NormDeg(d) = 0 -> 1 [] NormDeg(d) = 180 -> -1 [] OTHER -> 0

Sin(d) == CASE NormDeg(d) = 90 -> 1 [] NormDeg(d) = 270 -> -1 [] OTHER -> 0

\* Transform::right() and Transform::up(), truncated to the plane.
Right(rot) == <<Cos(rot), Sin(rot)>>

Up(rot) == <<-Sin(rot), Cos(rot)>>

VAdd(a, b) == <<a[1] + b[1], a[2] + b[2]>>

VSub(a, b) == <<a[1] - b[1], a[2] - b[2]>>

VScale(a, k) == <<a[1] * k, a[2] * k>>

\* glam Vec2::rotate: complex multiplication by the unit vector rhs.
VRotate(a, rhs) == <<a[1] * rhs[1] - a[2] * rhs[2], a[2] * rhs[1] + a[1] * rhs[2]>>

\* ------------------------------------------------------------ prototypes
\* struct Movement as deserialized: input_move and input_rotation are
\* #[serde(skip)] (zero), every other absent field takes its serde default.
Movement(name, movement_type, speed, max_speed, max_speed_backwards, acceleration, braking_acceleration, passive_deceleration, rotation_speed) ==
    [ name |-> name, movement_type |-> movement_type, speed |-> speed,
      max_speed |-> max_speed, max_speed_backwards |-> max_speed_backwards,
      acceleration |-> acceleration, braking_acceleration |-> braking_acceleration,
      passive_deceleration |-> passive_deceleration, rotation_speed |-> rotation_speed,
      rotation_offset |-> 0, input_move |-> <<0, 0>>, input_rotation |-> 0,
      hand_brake |-> FALSE ]

\* The records of prototypes.json, in file order ("default" appears twice).
PrototypeRecords ==
    << Movement("default", "omnidirectional", 30, 0, None, 0, None, 0, 0),
       Movement("car", "accelerated-steering", 0, 60, None, 1800, None, 600, 5400),
       Movement("racer", "accelerated-steering", 90, 60, Some(30), 1800, Some(7200), 600, 5400),
       Movement("train", "train", 60, 60, None, 1800, None, 600, 5400),
       Movement("default", "omnidirectional", 60, 0, None, 0, None, 0, 5400) >>

RECURSIVE CollectMap_keep_first(_, _, _)
\* A collect in which the first pair of a key stays.
CollectMap_keep_first(seq, i, map) ==
    IF i > Len(seq) THEN map
    ELSE CollectMap_keep_first(seq, i + 1,
                    [k \in (DOMAIN map) \cup {seq[i].name} |->
                        IF k \in DOMAIN map THEN map[k] ELSE seq[i]])

RECURSIVE CollectMap(_, _, _)
\* Iterator::collect into a HashMap: a later pair replaces an earlier one of
\* the same key.
CollectMap(seq, i, map) ==
    IF i > Len(seq) THEN map
    ELSE CollectMap(seq, i + 1,
                    [k \in (DOMAIN map) \cup {seq[i].name} |->
                        IF k = seq[i].name THEN seq[i] ELSE map[k]])

\* hashmap_from_sequence: the table keyed by each record's name.
hashmap_from_sequence(seq) == CollectMap(seq, 1, <<>>)

\* struct Prototypes, field movement.
Prototypes == [movement |-> hashmap_from_sequence(PrototypeRecords)]

\* Movement::from_pt: Some(component) or None.
from_pt(prototypes_table, name) ==
    IF name \in DOMAIN prototypes_table.movement
    THEN Some(prototypes_table.movement[name]) ELSE None

\* to_component: self.clone().
to_component(self) == self

\* component_from_pt: from_pt(prototypes_table, name).map(to_component).
component_from_pt(prototypes_table, name) ==
    IF IsSome(from_pt(prototypes_table, name))
    THEN Some(to_component(Unwrap(from_pt(prototypes_table, name)))) ELSE None

\* Names a unit is spawned with.
SpawnNames == {"default", "car", "racer", "train"}

\* -------------------------------------------------------------- programs
\* The program bytes units run, by name, each as what its chunk defines:
\* whether it defines on_tick, and the statements of on_tick in order.
\*   ""       the empty program of UnitProgram::new_lua
\*   "move11" the program of spawn_unit: handle:move(1, 1)
\*   "steer"  n = (n or 0) + 1; reads both clocks; rotate(1); move(0, 2)
\*   "brake"  toggle_hand_brake(); move(1, -1)
\*   "faulty" n = (n or 0) + 1; move(-1, 0); error() once n >= 2; rotate(-1)
\*   "random" move(math.random(...), math.random(...)), from RandomMoves
\*   "reverse" n = (n or 0) + 1; m = handle.movement; move(1, 0);
\*            if n >= 2 then toggle_hand_brake(); move(-1, 0) end
Programs ==
    [ none   |-> [on_tick |-> FALSE, body |-> <<>>],
      move11 |-> [on_tick |-> TRUE, body |-> << <<"move", 1, 1>> >>],
      steer  |-> [on_tick |-> TRUE,
                  body |-> << <<"count">>, <<"read_clocks">>, <<"rotate", 1>>,
                              <<"move", 0, 2>> >>],
      brake  |-> [on_tick |-> TRUE,
                  body |-> << <<"toggle_hand_brake">>, <<"move", 1, -1>> >>],
      faulty |-> [on_tick |-> TRUE,
                  body |-> << <<"count">>, <<"move", -1, 0>>, <<"error_if_n_ge", 2>>,
                              <<"rotate", -1>> >>],
      random |-> [on_tick |-> TRUE, body |-> << <<"move_random">> >>],
      reverse |-> [on_tick |-> TRUE,
                   body |-> << <<"count">>, <<"read_movement">>, <<"move", 1, 0>>,
                               <<"toggle_hand_brake_if_n_ge", 2>>,
                               <<"move_if_n_ge", 2, -1, 0>> >>] ]

ProgramNames == DOMAIN Programs

\* What math.random can make the "random" program pass to move.
RandomMoves == {<<-1, 0>>, <<2, -1>>}

\* The globals of a Lua state that the programs use: on_tick (nil, or the
\* function, given by its statements), and n, t_unit, t_global, m (nil until
\* a tick assigns them).
\* Lua::new() followed by load(program).exec().
new_lua_with_program(program) ==
    [on_tick |-> IF Programs[program].on_tick THEN Some(Programs[program].body)
                 ELSE None,
     n |-> None, t_unit |-> None, t_global |-> None, m |-> None]

\* A reload that runs the program again in the state it replaces.
reloaded_in_place(state, program) ==
    [state EXCEPT !.on_tick = new_lua_with_program(program).on_tick]

\* UnitProgramState::reload: *self = self.new_with_program(program).
reloaded(state, program) == new_lua_with_program(program)

\* One statement of on_tick run on st = [movement, lua, err], with the
\* handle h = [transform, clock, game_clock]; the mutators and accessors
\* are those of LuaUnitHandle.
\* A move that also writes the speed.
handle_move_sets_speed(movement, args) ==
    IF IsSome(movement)
    THEN Some([Unwrap(movement) EXCEPT !.input_move = args, !.speed = args[1]])
    ELSE movement

handle_move(movement, args) ==
    IF IsSome(movement)
    THEN Some([Unwrap(movement) EXCEPT !.input_move = args]) ELSE movement

handle_rotate(movement, rot) ==
    IF IsSome(movement)
    THEN Some([Unwrap(movement) EXCEPT !.input_rotation = rot]) ELSE movement

handle_toggle_hand_brake(movement) ==
    IF IsSome(movement)
    THEN Some([Unwrap(movement) EXCEPT !.hand_brake = ~Unwrap(movement).hand_brake])
    ELSE movement

\* The getter of the field "movement": nil without a Movement, else a new
\* table of the component's values.
movement_field(movement) ==
    IF IsSome(movement)
    THEN LET mv == Unwrap(movement)
             speed == mv.speed
             max_speed == mv.max_speed
             max_speed_backwards == mv.max_speed_backwards
             acceleration == mv.acceleration
             braking_acceleration == mv.acceleration
             passive_deceleration == mv.passive_deceleration
             rotation_speed == mv.rotation_speed
             hand_brake == mv.hand_brake
         IN  Some([movement_type |-> mv.movement_type, speed |-> speed,
                   max_speed |-> max_speed,
                   max_speed_backwards |-> max_speed_backwards,
                   acceleration |-> acceleration,
                   braking_acceleration |-> braking_acceleration,
                   passive_deceleration |-> passive_deceleration,
                   rotation_speed |-> rotation_speed,
                   is_hand_brake_pulled |-> hand_brake])
    ELSE None

Statement(op, st, h, choice) ==
    CASE op[1] = "move" ->
            [st EXCEPT !.movement = handle_move(st.movement, <<op[2], op[3]>>)]
      [] op[1] = "move_random" ->
            [st EXCEPT !.movement = handle_move(st.movement, choice)]
      [] op[1] = "rotate" ->
            [st EXCEPT !.movement = handle_rotate(st.movement, op[2])]
      [] op[1] = "toggle_hand_brake" ->
            [st EXCEPT !.movement = handle_toggle_hand_brake(st.movement)]
      [] op[1] = "count" ->
            [st EXCEPT !.lua.n =
                Some((IF IsSome(st.lua.n) THEN Unwrap(st.lua.n) ELSE 0) + 1)]
      [] op[1] = "read_clocks" ->
            [st EXCEPT !.lua.t_unit = Some(h.clock),
                       !.lua.t_global = Some(h.game_clock)]
      [] op[1] = "read_movement" ->
            [st EXCEPT !.lua.m = movement_field(st.movement)]
      [] op[1] = "toggle_hand_brake_if_n_ge" ->
            IF IsSome(st.lua.n) /\ Unwrap(st.lua.n) >= op[2]
            THEN [st EXCEPT !.movement = handle_toggle_hand_brake(st.movement)]
            ELSE st
      [] op[1] = "move_if_n_ge" ->
            IF IsSome(st.lua.n) /\ Unwrap(st.lua.n) >= op[2]
            THEN [st EXCEPT !.movement = handle_move(st.movement, <<op[3], op[4]>>)]
            ELSE st
      [] op[1] = "error_if_n_ge" ->
            [st EXCEPT !.err = IsSome(st.lua.n) /\ Unwrap(st.lua.n) >= op[2]]

RECURSIVE RunBody(_, _, _, _, _)
\* on_tick_fn.call(lua_handle): the statements in order, stopping at the
\* first error.
RunBody(body, i, st, h, choice) ==
    IF i > Len(body) \/ st.err THEN st
    ELSE RunBody(body, i + 1, Statement(body[i], st, h, choice), h, choice)

\* What math.random may return during one call of on_tick.
RandomChoices(lua) ==
    IF IsSome(lua.on_tick) /\ \E i \in DOMAIN Unwrap(lua.on_tick) :
                                 Unwrap(lua.on_tick)[i][1] = "move_random"
    THEN RandomMoves ELSE {<<0, 0>>}

\* A tick for which a missing on_tick is an error.
tick_absent_is_error(lua, movement, h, choice) ==
    IF IsSome(lua.on_tick)
    THEN RunBody(Unwrap(lua.on_tick), 1,
                 [movement |-> movement, lua |-> lua, err |-> FALSE], h, choice)
    ELSE [movement |-> movement, lua |-> lua, err |-> TRUE]

\* UnitProgramState::tick on the Lua state `lua`: a no-op without on_tick,
\* else one call of it.  The result is [movement, lua, err]; err is the Err
\* that tick unwraps.
tick(lua, movement, h, choice) ==
    IF IsSome(lua.on_tick)
    THEN RunBody(Unwrap(lua.on_tick), 1,
                 [movement |-> movement, lua |-> lua, err |-> FALSE], h, choice)
    ELSE [movement |-> movement, lua |-> lua, err |-> FALSE]

\* ---------------------------------------------------------------- world
\* Half extents of the colliders in thousandths of a tile: Collider::cuboid
\* (0.499, 0.499) of a unit, Collider::cuboid(0.5, 0.5) of a wall.
UnitHalfExtent == 499
WallHalfExtent == 500
\* Thousandths.
Milli == 1000

\* spawn_walls: the tiles that hold a wall, as positions.
Walls ==
    {<<i * Tile, 5 * Tile>> : i \in 1..5} \cup {<<5 * Tile, j * Tile>> : j \in 0..4}
        \cup {<<-1 * Tile, 5 * Tile>>}

\* Along one axis: does a point starting at offset a from the centre of an
\* obstacle and moving by d over t in [0, 1] come within width w (in
\* thousandths of a position unit) at some t in the open interval
\* (lo / den, hi / den)?  The interval, with den = |d|; for d = 0 it is
\* everything or nothing.
AxisLo(a, d, w) == Sign(d) * a * Milli - w

AxisHi(a, d, w) == Sign(d) * a * Milli + w

AxisAlways(a, w) == Abs(a) * Milli < w

\* Does the segment from p along d meet the open box of half width w
\* (thousandths) around c at some t in [0, 1]?
SegmentMeetsBox(p, d, c, w) ==
    LET ax == c[1] - p[1]
        ay == c[2] - p[2]
        dx == Abs(d[1]) * Milli
        dy == Abs(d[2]) * Milli
        xok == IF d[1] = 0 THEN AxisAlways(ax, w)
               ELSE AxisLo(ax, d[1], w) < dx /\ AxisHi(ax, d[1], w) > 0
        yok == IF d[2] = 0 THEN AxisAlways(ay, w)
               ELSE AxisLo(ay, d[2], w) < dy /\ AxisHi(ay, d[2], w) > 0
        cross == IF d[1] = 0 \/ d[2] = 0 THEN TRUE
                 ELSE /\ AxisLo(ax, d[1], w) * Abs(d[2]) < AxisHi(ay, d[2], w) * Abs(d[1])
                      /\ AxisLo(ay, d[2], w) * Abs(d[1]) < AxisHi(ax, d[1], w) * Abs(d[2])
    IN  xok /\ yok /\ cross

\* Two colliders at rest overlap.
Overlap(p, c, w) == ~IsNaN(p) /\ ~IsNaN(c) /\ SegmentMeetsBox(p, <<0, 0>>, c, w)

\* RapierContext::cast_shape(shape_pos, shape_rot, shape_vel, collider,
\* max_toi = 1.0, filter) against the collider positions `snapshot` the
\* context holds, with filter = exclude_collider(entity).exclude_sensors():
\* TRUE for Some(hit).  A NaN argument leaves the answer to the library:
\* nan_hit.
cast_shape(snapshot, shape_pos, shape_vel, entity, nan_hit) ==
    IF IsNaN(shape_pos) \/ IsNaN(shape_vel) THEN nan_hit
    ELSE \/ \E c \in Walls :
              SegmentMeetsBox(shape_pos, shape_vel, c,
                              (UnitHalfExtent + WallHalfExtent) * Tile)
         \/ \E e \in DOMAIN snapshot :
              /\ e # entity
              /\ ~IsNaN(snapshot[e])
              /\ SegmentMeetsBox(shape_pos, shape_vel, snapshot[e],
                                 (UnitHalfExtent + UnitHalfExtent) * Tile)

\* ----------------------------------------------------- movement integrator
\* Option::unwrap_or.
unwrap_or(o, default) == IF IsSome(o) THEN Unwrap(o) ELSE default

\* An Omnidirectional arm that moves along the world's axes instead of the
\* unit's right and up.
Omnidirectional_world_axes(movement, transform, entity, snapshot, nan_hit) ==
    IF movement.hand_brake
    THEN [movement |-> movement, transform |-> transform, probe |-> "not_called"]
    ELSE
      LET rotation ==
              IF movement.input_rotation # 0
              THEN NormDeg(transform.rotation
                           - Div(movement.rotation_speed
                                 * Clamp(movement.input_rotation, -1, 1) * HalfTurn,
                                 HalfTurn * TicksPerSecond))
              ELSE transform.rotation
          unit_move == ClampLengthMax(movement.input_move)
          delta ==
              << Div(unit_move[1] * movement.speed * Tile, UnitScale * TicksPerSecond),
                 Div(unit_move[2] * movement.speed * Tile, UnitScale * TicksPerSecond) >>
          hit == cast_shape(snapshot, transform.translation, delta, entity, nan_hit)
      IN  IF movement.input_move # <<0, 0>>
          THEN [movement |-> [movement EXCEPT !.input_move = <<0, 0>>],
                transform |-> [translation |-> IF hit THEN transform.translation
                                               ELSE VAdd(transform.translation, delta),
                               rotation |-> rotation],
                probe |-> IF hit THEN "hit" ELSE "none"]
          ELSE [movement |-> movement,
                transform |-> [transform EXCEPT !.rotation = rotation],
                probe |-> "not_called"]

\* The Omnidirectional arm of handle_movement for one unit: the new
\* [movement, transform] and what the probe answered ("none", "hit", or
\* "not_called").
Omnidirectional(movement, transform, entity, snapshot, nan_hit) ==
    IF movement.hand_brake
    THEN [movement |-> movement, transform |-> transform, probe |-> "not_called"]
    ELSE
      LET rotation ==
              IF movement.input_rotation # 0
              THEN NormDeg(transform.rotation
                           - Div(movement.rotation_speed
                                 * Clamp(movement.input_rotation, -1, 1) * HalfTurn,
                                 HalfTurn * TicksPerSecond))
              ELSE transform.rotation
          unit_move == ClampLengthMax(movement.input_move)
          unrotated_move ==
              << Div(unit_move[1] * movement.speed * Tile, UnitScale * TicksPerSecond),
                 Div(unit_move[2] * movement.speed * Tile, UnitScale * TicksPerSecond) >>
          delta == VAdd(VScale(Right(rotation), unrotated_move[1]),
                        VScale(Up(rotation), unrotated_move[2]))
          shape_pos == transform.translation
          hit == cast_shape(snapshot, shape_pos, delta, entity, nan_hit)
      IN  IF movement.input_move # <<0, 0>>
          THEN [movement |-> [movement EXCEPT !.input_move = <<0, 0>>],
                transform |-> [translation |-> IF hit THEN transform.translation
                                               ELSE VAdd(transform.translation, delta),
                               rotation |-> rotation],
                probe |-> IF hit THEN "hit" ELSE "none"]
          ELSE [movement |-> movement,
                transform |-> [transform EXCEPT !.rotation = rotation],
                probe |-> "not_called"]

\* The acceleration the AcceleratedSteering arm selects (the inner
\* `acceleration` of new_speed).
applied_acceleration(movement) ==
    LET input_move_vec == ClampAxes(movement.input_move)
        acceleration == movement.acceleration
        braking_acceleration == -unwrap_or(movement.braking_acceleration, acceleration)
        passive_deceleration == movement.passive_deceleration
    IN
        IF movement.hand_brake
        THEN IF movement.speed > 0 THEN braking_acceleration
             ELSE -braking_acceleration
        ELSE IF \/ (movement.speed > 0 /\ input_move_vec[1] > 0)
                \/ (movement.speed < 0 /\ input_move_vec[1] < 0)
             THEN acceleration
             ELSE IF \/ (movement.speed > 0 /\ input_move_vec[1] < 0)
                     \/ (movement.speed < 0 /\ input_move_vec[1] > 0)
                  THEN braking_acceleration
                  ELSE IF movement.speed # 0 THEN -passive_deceleration
                       ELSE acceleration

\* A new_speed that forgets the clamp to the speed limits.
new_speed_unclamped(movement) ==
    movement.speed + Div(applied_acceleration(movement) * ClampAxes(movement.input_move)[1],
                         TicksPerSecond)

\* new_speed of the AcceleratedSteering arm.
new_speed(movement) ==
    LET input_move_vec == ClampAxes(movement.input_move)
        max_speed == movement.max_speed
        max_speed_backwards == -unwrap_or(movement.max_speed_backwards, max_speed)
    IN  Clamp(movement.speed
                  + Div(applied_acceleration(movement) * input_move_vec[1], TicksPerSecond),
              max_speed_backwards, max_speed)

\* The pose the AcceleratedSteering arm proposes for a unit whose speed is
\* not zero: [translation, rotation, delta].  rot_angle in degrees; a zero
\* rot_angle makes turning_scale infinite and the translation NaN.
ProposedPose(movement, transform) ==
    LET input_move_vec == ClampAxes(movement.input_move)
        linear_delta == Div(movement.speed * Tile, TicksPerSecond)
        starting_translation == transform.translation
        angle == Div(movement.rotation_speed * HalfTurn * input_move_vec[2],
                     TicksPerSecond * HalfTurn)
        rot_angle == IF movement.speed < 0 THEN -angle ELSE angle
        result_rotation == NormDeg(transform.rotation - rot_angle)
        finite == rot_angle # 0 /\ ~IsNaN(starting_translation)
        turning_scale == Div(linear_delta * HalfTurn * PiDen, PiNum * rot_angle)
        rot_vec_normalized == <<Cos(rot_angle), Sin(rot_angle)>>
        turning_radius == VScale(Right(transform.rotation), turning_scale)
        turning_origin == VSub(starting_translation, turning_radius)
        result_translation ==
            IF finite THEN VAdd(VRotate(turning_radius, rot_vec_normalized), turning_origin)
            ELSE NaNVec
    IN  [translation |-> result_translation, rotation |-> result_rotation,
         delta |-> IF finite THEN VSub(result_translation, starting_translation)
                   ELSE NaNVec]

\* Where the AcceleratedSteering arm starts its sweep.
SweepOrigin(transform, proposed) == proposed.translation

\* The AcceleratedSteering arm of handle_movement for one unit.
AcceleratedSteering(movement, transform, entity, snapshot, nan_hit) ==
    LET moved == [movement EXCEPT !.speed = new_speed(movement)]
        proposed == ProposedPose(moved, transform)
        hit == cast_shape(snapshot, SweepOrigin(transform, proposed), proposed.delta,
                          entity, nan_hit)
    IN  IF moved.speed # 0
        THEN [movement |-> [moved EXCEPT !.input_move = <<0, 0>>],
              transform |-> IF hit THEN transform
                            ELSE [translation |-> proposed.translation,
                                  rotation |-> proposed.rotation],
              probe |-> IF hit THEN "hit" ELSE "none"]
        ELSE [movement |-> moved, transform |-> transform, probe |-> "not_called"]

\* What the library may answer to the unit's probe: either answer when an
\* argument of the probe is NaN.
ProbeChoices(movement, transform) ==
    IF /\ movement.movement_type = "accelerated-steering"
       /\ new_speed(movement) # 0
       /\ IsNaN(ProposedPose([movement EXCEPT !.speed = new_speed(movement)],
                              transform).translation)
    THEN BOOLEAN ELSE {FALSE}

\* The body of handle_movement's loop for one unit of the query.
MovementStep(movement, transform, entity, snapshot, nan_hit) ==
    CASE movement.movement_type = "omnidirectional" ->
            Omnidirectional(movement, transform, entity, snapshot, nan_hit)
      [] movement.movement_type = "accelerated-steering" ->
            AcceleratedSteering(movement, transform, entity, snapshot, nan_hit)
      [] OTHER ->
            [movement |-> movement, transform |-> transform, probe |-> "not_called"]

\* ---------------------------------------------------------------- state
\* The units, in the order the queries iterate them.
Units == {1, 2}

LastUnit == Cardinality(Units)

\* Where each unit is spawned: unit 1 in the corner the walls make, unit 2
\* two tiles to its left.
StartPosition == [u \in Units |-> IF u = 1 THEN <<4 * Tile, 4 * Tile>>
                                  ELSE <<2 * Tile, 4 * Tile>>]

\* Time::delta() of a frame, in clock ticks.
Deltas == {1, 2}

VARIABLES
    movement,      \* unit -> Option<Movement>, the component
    transform,     \* unit -> [translation, rotation], the Transform component
    unit_clock,    \* unit -> elapsed time of its UnitClock
    game_clock,    \* elapsed time of the GameClock resource
    program,       \* unit -> UnitProgram.program, the stored bytes
    lua,           \* unit -> UnitProgram.state, the globals of its Lua state
    colliders,     \* unit -> the collider position RapierContext holds
    stage,         \* the stage of the frame that runs next
    idx,           \* the unit the running system's loop handles next
    delta,         \* Time::delta() of the running frame
    clock_ticked,  \* game_clock_tick has run in this frame's Update stage
    frame,         \* frames completed
    crashed,       \* a system panicked: the process is gone
    last,          \* the step just taken, with the state it started from
    pt             \* the profile table: the records it was loaded from, the
                   \* Prototypes made of them, and the last lookup in it

\* The variables of the running simulation.
sim_vars == <<movement, transform, unit_clock, game_clock, program, lua, colliders,
              stage, idx, delta, clock_ticked, frame, crashed, last>>

vars == <<sim_vars, pt>>

\* PrototypesLoader::load of a list of records: the table deserialized from
\* it, nothing looked up yet.
LoadedTable(records) ==
    [records |-> records, table |-> [movement |-> hashmap_from_sequence(records)],
     op |-> "load", name |-> "", found |-> None, component |-> None]

\* The state a step starts from, as `last` keeps it.
Snapshot(op, unit, probe, err) ==
    [op |-> op, unit |-> unit, probe |-> probe, err |-> err,
     movement |-> movement, transform |-> transform, lua |-> lua,
     unit_clock |-> unit_clock, game_clock |-> game_clock, stage |-> stage]

\* After the startup systems: every unit spawned with a component looked up
\* by name (or none), a program loaded into a fresh Lua state, both
\* stopwatches at zero, and the colliders registered with the physics
\* backend.
Init ==
    /\ movement \in [Units -> {from_pt(Prototypes, n) : n \in SpawnNames} \cup {None}]
    /\ transform = [u \in Units |-> [translation |-> StartPosition[u], rotation |-> 0]]
    /\ unit_clock = [u \in Units |-> 0]
    /\ game_clock = 0
    /\ program \in [Units -> ProgramNames]
    /\ lua = [u \in Units |-> new_lua_with_program(program[u])]
    /\ colliders = [u \in Units |-> transform[u].translation]
    /\ stage = "First"
    /\ idx = 1
    /\ delta = 0
    /\ clock_ticked = FALSE
    /\ frame = 0
    /\ crashed = FALSE
    /\ last = Snapshot("startup", 0, "not_called", FALSE)
    /\ pt = LoadedTable(PrototypeRecords)

\* tick_units_clocks (CoreStage::First): every unit's stopwatch advances by
\* the frame's delta.
tick_units_clocks ==
    /\ ~crashed /\ stage = "First" /\ frame < MaxFrames
    /\ \E d \in Deltas :
          /\ delta' = d
          /\ unit_clock' = [u \in Units |-> unit_clock[u] + d]
    /\ stage' = "PreUpdate"
    /\ idx' = 1
    /\ last' = Snapshot("tick_units_clocks", 0, "not_called", FALSE)
    /\ UNCHANGED <<movement, transform, game_clock, program, lua, colliders,
                   clock_ticked, frame, crashed, pt>>

\* The system's loop moves on to the next unit; after the last unit the
\* stage is over.
NextIdx(next_stage) ==
    IF idx = LastUnit
    THEN stage' = next_stage /\ idx' = 1
    ELSE stage' = stage /\ idx' = idx + 1

\* unit_tick (CoreStage::PreUpdate), one iteration: the unit's program is
\* ticked with a handle on its own components; an Err is unwrapped, which
\* panics.
unit_tick ==
    /\ ~crashed /\ stage = "PreUpdate"
    /\ \E choice \in RandomChoices(lua[idx]) :
          LET handle == [transform |-> transform[idx], clock |-> unit_clock[idx],
                         game_clock |-> game_clock]
              r == tick(lua[idx], movement[idx], handle, choice)
          IN  /\ movement' = [movement EXCEPT ![idx] = r.movement]
              /\ lua' = [lua EXCEPT ![idx] = r.lua]
              /\ crashed' = r.err
              /\ last' = Snapshot("unit_tick", idx, "not_called", r.err)
    /\ NextIdx("Update")
    /\ clock_ticked' = FALSE
    /\ UNCHANGED <<transform, unit_clock, game_clock, program, colliders, delta,
                   frame, pt>>

\* game_clock_tick (CoreStage::Update, unordered with handle_movement).
game_clock_tick ==
    /\ ~crashed /\ stage = "Update" /\ ~clock_ticked
    /\ game_clock' = game_clock + delta
    /\ clock_ticked' = TRUE
    /\ last' = Snapshot("game_clock_tick", 0, "not_called", FALSE)
    /\ UNCHANGED <<movement, transform, unit_clock, program, lua, colliders, stage,
                   idx, delta, frame, crashed, pt>>

\* handle_movement (CoreStage::Update), one iteration: a unit without a
\* Movement is not in the query.
handle_movement ==
    /\ ~crashed /\ stage = "Update"
    /\ IF IsSome(movement[idx])
       THEN \E nan_hit \in ProbeChoices(Unwrap(movement[idx]), transform[idx]) :
              LET r == MovementStep(Unwrap(movement[idx]), transform[idx], idx,
                                    colliders, nan_hit)
              IN  /\ movement' = [movement EXCEPT ![idx] = Some(r.movement)]
                  /\ transform' = [transform EXCEPT ![idx] = r.transform]
                  /\ last' = Snapshot("handle_movement", idx, r.probe, FALSE)
       ELSE /\ UNCHANGED <<movement, transform>>
            /\ last' = Snapshot("handle_movement", 0, "not_called", FALSE)
    /\ NextIdx("Physics")
    /\ UNCHANGED <<unit_clock, game_clock, program, lua, colliders, delta,
                   clock_ticked, frame, crashed, pt>>

\* The physics backend's stages after Update: the collider positions are
\* synchronised with the transforms, and the frame ends.
sync_backend ==
    /\ ~crashed /\ stage = "Physics" /\ clock_ticked
    /\ colliders' = [u \in Units |-> transform[u].translation]
    /\ stage' = "First"
    /\ frame' = frame + 1
    /\ last' = Snapshot("sync_backend", 0, "not_called", FALSE)
    /\ UNCHANGED <<movement, transform, unit_clock, game_clock, program, lua, idx,
                   delta, clock_ticked, crashed, pt>>

\* UnitProgram::reload, between frames: the state is replaced by a fresh
\* one made from the stored program.
reload ==
    /\ ~crashed /\ stage = "First"
    /\ \E u \in Units :
          /\ lua' = [lua EXCEPT ![u] = reloaded(lua[u], program[u])]
          /\ last' = Snapshot("reload", u, "not_called", FALSE)
    /\ UNCHANGED <<movement, transform, unit_clock, game_clock, program, colliders,
                   stage, idx, delta, clock_ticked, frame, crashed, pt>>

Next ==
    \/ tick_units_clocks
    \/ unit_tick
    \/ game_clock_tick
    \/ handle_movement
    \/ sync_backend
    \/ reload

Spec == Init /\ [][Next]_vars

\* ------------------------------------------------- the profile table alone
\* The names and speeds of the records a list is made of, and the names
\* looked up: one more than the records can have.
RecordNames == {"car", "train"}

RecordSpeeds == {30, 60}

LookupNames == RecordNames \cup {"racer"}

ProfileRecords ==
    {Movement(n, "omnidirectional", sp, 0, None, 0, None, 0, 0) :
        n \in RecordNames, sp \in RecordSpeeds}

\* Every list of at most MaxRecords records.
RecordLists == UNION {[1..n -> ProfileRecords] : n \in 0..MaxRecords}

\* A table loaded from any list of records; no unit is spawned and no frame
\* runs.
InitTable ==
    /\ pt \in {LoadedTable(records) : records \in RecordLists}
    /\ movement = [u \in Units |-> None]
    /\ transform = [u \in Units |-> [translation |-> StartPosition[u], rotation |-> 0]]
    /\ unit_clock = [u \in Units |-> 0]
    /\ game_clock = 0
    /\ program = [u \in Units |-> "none"]
    /\ lua = [u \in Units |-> new_lua_with_program(program[u])]
    /\ colliders = [u \in Units |-> transform[u].translation]
    /\ stage = "First"
    /\ idx = 1
    /\ delta = 0
    /\ clock_ticked = FALSE
    /\ frame = 0
    /\ crashed = FALSE
    /\ last = Snapshot("startup", 0, "not_called", FALSE)

\* Movement::from_pt and Movement::component_from_pt of one name.
lookup ==
    /\ \E name \in LookupNames :
          pt' = [pt EXCEPT !.op = "lookup", !.name = name,
                           !.found = from_pt(pt.table, name),
                           !.component = component_from_pt(pt.table, name)]
    /\ UNCHANGED sim_vars

\* The owner of a component got from the table writes to it, as the
\* integrator writes the speed and a script the hand brake.
mutate_component ==
    /\ pt.op = "lookup"
    /\ IsSome(pt.component)
    /\ pt' = [pt EXCEPT !.op = "mutate",
                        !.component = Some([Unwrap(pt.component) EXCEPT
                                               !.speed = @ + 1,
                                               !.hand_brake = TRUE])]
    /\ UNCHANGED sim_vars

NextTable ==
    \/ lookup
    \/ mutate_component

SpecTable == InitTable /\ [][NextTable]_vars

\* ---------------------------------------------------------------- claims
\* The unit the last step handled, its Movement now and before the step.
StepOf(op) == last.op = op /\ last.unit # 0

Now == Unwrap(movement[last.unit])

Before == Unwrap(last.movement[last.unit])

IntegratedUnit == StepOf("handle_movement")

\* C1: after every integration step of a unit, whatever its movement type,
\* hand brake, speed and collision outcome, its input_move and
\* input_rotation are both zero.
C1_IntentsNeutralAfterStep ==
    IntegratedUnit => Now.input_move = <<0, 0>> /\ Now.input_rotation = 0

\* C2: when the collision probe reports an obstruction for the step's
\* proposed delta, the unit's position and rotation after the step are
\* those before it, and input_move and input_rotation are neutral.
C2_BlockedStepKeepsPose ==
    (IntegratedUnit /\ last.probe = "hit") =>
        /\ transform[last.unit] = last.transform[last.unit]
        /\ Now.input_move = <<0, 0>>
        /\ Now.input_rotation = 0

\* A unit's collider overlaps a wall or another unit's collider.
Penetrates(u) ==
    \/ \E c \in Walls :
         Overlap(transform[u].translation, c, (UnitHalfExtent + WallHalfExtent) * Tile)
    \/ \E v \in Units \ {u} :
         Overlap(transform[u].translation, transform[v].translation,
                 (UnitHalfExtent + UnitHalfExtent) * Tile)

\* C3: starting from a world where no two solid bodies overlap, after any
\* sequence of integration steps no unit's committed position overlaps a
\* wall or another unit.
C3_NoCommittedOverlap == \A u \in Units : ~Penetrates(u)

\* C4: for an AcceleratedSteering unit with non-negative max_speed and
\* max_speed_backwards (max_speed when absent), the speed after one
\* integration step lies in [-max_speed_backwards, max_speed].
C4_SpeedWithinLimits ==
    (/\ IntegratedUnit
     /\ Before.movement_type = "accelerated-steering"
     /\ Before.max_speed >= 0
     /\ unwrap_or(Before.max_speed_backwards, Before.max_speed) >= 0) =>
        /\ Now.speed <= Before.max_speed
        /\ Now.speed >= -unwrap_or(Before.max_speed_backwards, Before.max_speed)

\* C4's case: a unit that entered the step above its max_speed left it at
\* max_speed.
C4_Witness ==
    /\ IntegratedUnit
    /\ Before.movement_type = "accelerated-steering"
    /\ Before.speed > Before.max_speed
    /\ Now.speed = Before.max_speed

\* C5: an AcceleratedSteering unit whose speed is not zero before an
\* integration step never has a speed of the opposite sign after it.
C5_NoSignChange ==
    (/\ IntegratedUnit
     /\ Before.movement_type = "accelerated-steering"
     /\ Before.speed # 0) =>
        Sign(Now.speed) # -Sign(Before.speed)

\* C6: a runtime error raised by a unit's on_tick is not fatal: the
\* simulation goes on.
C6_ScriptErrorNotFatal == (last.op = "unit_tick" /\ last.err) => ~crashed

\* C7: after reload, following any number of earlier ticks, the unit's
\* interpreter state is that of a fresh interpreter initialised from the
\* stored program: no global of earlier ticks is left, and on_tick is the
\* stored program's.
C7_ReloadIsFresh ==
    StepOf("reload") =>
        /\ lua[last.unit].n = None
        /\ lua[last.unit].t_unit = None
        /\ lua[last.unit].t_global = None
        /\ lua[last.unit].m = None
        /\ lua[last.unit].on_tick =
               (IF Programs[program[last.unit]].on_tick
                THEN Some(Programs[program[last.unit]].body) ELSE None)

\* C7's case: a reload of a state in which earlier ticks had left a counter.
C7_Witness ==
    /\ StepOf("reload")
    /\ IsSome(last.lua[last.unit].n)
    /\ Unwrap(last.lua[last.unit].n) >= 2
    /\ lua[last.unit].n = None

\* C8: a script tick for unit u changes at most input_move, input_rotation
\* and hand_brake of u's own Movement; u's pose, speed and profile
\* constants, both clocks, and every other unit's Movement and pose are
\* unchanged.
C8_TickWritesOnlyIntents ==
    StepOf("unit_tick") =>
        /\ transform = last.transform
        /\ unit_clock = last.unit_clock
        /\ game_clock = last.game_clock
        /\ \A v \in Units \ {last.unit} : movement[v] = last.movement[v]
        /\ IsSome(movement[last.unit]) = IsSome(last.movement[last.unit])
        /\ IsSome(movement[last.unit]) =>
              [Now EXCEPT !.input_move = Before.input_move,
                          !.input_rotation = Before.input_rotation,
                          !.hand_brake = Before.hand_brake] = Before

\* C8's case: a tick whose script wrote input_move and flipped hand_brake.
C8_Witness ==
    /\ StepOf("unit_tick")
    /\ IsSome(movement[last.unit])
    /\ Now.input_move # Before.input_move
    /\ Now.hand_brake # Before.hand_brake

\* C9: a tick of a unit whose program defines no on_tick is a no-op and not
\* an error: Movement, pose and the interpreter's globals are unchanged,
\* also when it is repeated.
C9_TickWithoutEntryPointIsNoOp ==
    (StepOf("unit_tick") /\ ~IsSome(last.lua[last.unit].on_tick)) =>
        /\ ~last.err
        /\ ~crashed
        /\ movement[last.unit] = last.movement[last.unit]
        /\ transform[last.unit] = last.transform[last.unit]
        /\ lua[last.unit] = last.lua[last.unit]

\* C9's case: a second tick of a unit that has a Movement and no on_tick.
C9_Witness ==
    /\ StepOf("unit_tick")
    /\ ~IsSome(last.lua[last.unit].on_tick)
    /\ IsSome(movement[last.unit])
    /\ frame >= 1

\* C10: in every frame both clocks are advanced before any script is
\* invoked, so a script that reads time_since_start and global_time in the
\* same tick sees both advanced by the same frame deltas.
C10_ScriptSeesBothClocksAdvanced ==
    \A u \in Units : IsSome(lua[u].t_unit) => lua[u].t_unit = lua[u].t_global

\* The displacement the last integration step committed for its unit.
Displacement == VSub(transform[last.unit].translation, last.transform[last.unit].translation)

\* The squared length of a vector.
LengthSquared(v) == v[1] * v[1] + v[2] * v[2]

\* C11: for an Omnidirectional unit, for every input_move a script can
\* write (vectors longer than 1 included) and every orientation, the
\* displacement one integration step commits has magnitude at most
\* speed / ticks_per_second.
C11_OmniStepBounded ==
    (/\ IntegratedUnit
     /\ Before.movement_type = "omnidirectional"
     /\ Before.speed >= 0) =>
        LengthSquared(Displacement) * TicksPerSecond * TicksPerSecond
            <= (Before.speed * Tile) * (Before.speed * Tile)

\* C11's case: a turned unit whose input_move was longer than 1 moved.
C11_Witness ==
    /\ IntegratedUnit
    /\ Before.movement_type = "omnidirectional"
    /\ LengthSquared(Before.input_move) > 1
    /\ transform[last.unit].rotation # 0
    /\ last.probe = "none"
    /\ LengthSquared(Displacement) * TicksPerSecond * TicksPerSecond
           = (Before.speed * Tile) * (Before.speed * Tile)

\* move(dx, dy) clamped to unit length, times speed / ticks_per_second, in
\* the right and up axes of a unit turned by rot.
ExpectedOmniDisplacement(input, speed, rot) ==
    LET local == << Div(ClampLengthMax(input)[1] * speed * Tile, UnitScale * TicksPerSecond),
                    Div(ClampLengthMax(input)[2] * speed * Tile, UnitScale * TicksPerSecond) >>
    IN  VAdd(VScale(Right(rot), local[1]), VScale(Up(rot), local[2]))

\* C12: for an Omnidirectional unit with hand_brake unset and no
\* obstruction, a scripted move(dx, dy) followed by one integration step
\* displaces the unit by (dx, dy) clamped to unit length, times
\* speed / ticks_per_second, in the unit's local right and up axes, and
\* input_move is zero after the step.
C12_OmniMoveDisplacement ==
    (/\ IntegratedUnit
     /\ Before.movement_type = "omnidirectional"
     /\ ~Before.hand_brake
     /\ last.probe # "hit") =>
        /\ Displacement = ExpectedOmniDisplacement(Before.input_move, Before.speed,
                                                   transform[last.unit].rotation)
        /\ Now.input_move = <<0, 0>>

\* C12's case: a turned unit took a move longer than 1 along its own axes,
\* which are not the world's.
C12_Witness ==
    /\ IntegratedUnit
    /\ Before.movement_type = "omnidirectional"
    /\ ~Before.hand_brake
    /\ last.probe = "none"
    /\ LengthSquared(Before.input_move) > 1
    /\ Displacement # <<0, 0>>
    /\ Displacement # ExpectedOmniDisplacement(Before.input_move, Before.speed, 0)

\* The unit's on_tick reads handle.movement into the global m.
ReadsMovement(u) ==
    /\ IsSome(last.lua[u].on_tick)
    /\ \E i \in DOMAIN Unwrap(last.lua[u].on_tick) :
          Unwrap(last.lua[u].on_tick)[i][1] = "read_movement"

\* The table of a Movement's physical fields as the component holds them,
\* acceleration standing in for an absent braking_acceleration; nil without
\* a Movement.
HeldMovementFields(mv) ==
    IF IsSome(mv)
    THEN Some([movement_type |-> Unwrap(mv).movement_type,
               speed |-> Unwrap(mv).speed,
               max_speed |-> Unwrap(mv).max_speed,
               max_speed_backwards |-> Unwrap(mv).max_speed_backwards,
               acceleration |-> Unwrap(mv).acceleration,
               braking_acceleration |->
                   unwrap_or(Unwrap(mv).braking_acceleration, Unwrap(mv).acceleration),
               passive_deceleration |-> Unwrap(mv).passive_deceleration,
               rotation_speed |-> Unwrap(mv).rotation_speed,
               is_hand_brake_pulled |-> Unwrap(mv).hand_brake])
    ELSE None

\* C13: the movement snapshot a script reads through the handle reports,
\* for every physical field it exposes, exactly the value the unit's
\* Movement holds, and it is nil if and only if the unit has no Movement.
C13_SnapshotMatchesState ==
    (StepOf("unit_tick") /\ ReadsMovement(last.unit) /\ ~last.err) =>
        lua[last.unit].m = HeldMovementFields(last.movement[last.unit])

\* The places in the list of the records that have the name looked up.
Named == {i \in 1..Len(pt.records) : pt.records[i].name = pt.name}

\* The last of them.
LastNamed == CHOOSE i \in Named : \A j \in Named : j <= i

\* C14: for a table built from any flat list of named profiles, lookup of
\* a name returns None exactly when no record of the list has that name;
\* when several records share it, lookup returns the one that is last in
\* the list; and the component returned is a copy: writing to it leaves
\* the table's entry as it was.
C14_LookupLastWins ==
    (pt.op \in {"lookup", "mutate"}) =>
        /\ (pt.found = None) <=> (Named = {})
        /\ (pt.component = None) <=> (Named = {})
        /\ Named # {} =>
              /\ pt.found = Some(pt.records[LastNamed])
              /\ from_pt(pt.table, pt.name) = Some(pt.records[LastNamed])
              /\ pt.op = "lookup" => pt.component = Some(pt.records[LastNamed])

\* C14's case: the name looked up is on two records that differ, and the
\* component got from the later one has been written to.
C14_Witness ==
    /\ pt.op = "mutate"
    /\ \E i \in Named : i < LastNamed /\ pt.records[i] # pt.records[LastNamed]
    /\ pt.component # pt.found
    /\ from_pt(pt.table, pt.name) = Some(pt.records[LastNamed])

\* The last step integrated an AcceleratedSteering unit.
SteeringStep == IntegratedUnit /\ Before.movement_type = "accelerated-steering"

\* C15: for an AcceleratedSteering unit with hand_brake unset, non-zero
\* speed, zero longitudinal input and passive_deceleration > 0, one
\* integration step decelerates against the current speed: |speed| after
\* the step is strictly smaller than before, or zero.
C15_PassiveDecelerationSlows ==
    (/\ SteeringStep
     /\ ~Before.hand_brake
     /\ Before.speed # 0
     /\ ClampAxes(Before.input_move)[1] = 0
     /\ Before.passive_deceleration > 0) =>
        (Abs(Now.speed) < Abs(Before.speed) \/ Now.speed = 0)

\* C16: for an AcceleratedSteering unit with hand_brake set and non-zero
\* speed, for every input_move, the acceleration of one integration step
\* opposes the current speed: |speed| after the step is never greater than
\* |speed| before it.
C16_HandBrakeNeverSpeedsUp ==
    (SteeringStep /\ Before.hand_brake /\ Before.speed # 0) =>
        Abs(Now.speed) <= Abs(Before.speed)

\* The pose the last AcceleratedSteering step proposed, from the pose the
\* unit had and the speed the step gave it.
LastProposed ==
    ProposedPose([Before EXCEPT !.speed = Now.speed], last.transform[last.unit])

\* C17: in an AcceleratedSteering step whose resulting speed is not zero
\* and whose rotation angle is zero (no steering input, or rotation_speed
\* zero), nothing is divided by the angle: the proposed delta is a straight
\* translation of length |speed| / ticks_per_second with the rotation
\* unchanged, and the position committed is a position.
C17_StraightStepWellDefined ==
    (/\ SteeringStep
     /\ Now.speed # 0
     /\ ~IsNaN(last.transform[last.unit].translation)
     /\ (ClampAxes(Before.input_move)[2] = 0 \/ Before.rotation_speed = 0)) =>
        /\ ~IsNaN(LastProposed.delta)
        /\ LengthSquared(LastProposed.delta) * TicksPerSecond * TicksPerSecond
               = (Now.speed * Tile) * (Now.speed * Tile)
        /\ LastProposed.rotation = last.transform[last.unit].rotation
        /\ ~IsNaN(transform[last.unit].translation)

\* C18: the collision sweep of a step starts at the unit's pose before the
\* step and runs along the proposed delta, the unit's own collider left
\* out: for a unit that touches nothing where it stands, the step is blocked
\* exactly when the segment from the current position to the proposed one
\* meets an obstacle, in AcceleratedSteering as in Omnidirectional motion,
\* and position and rotation are committed together only when it meets
\* none.
C18_SweepFromCurrentPose ==
    (/\ SteeringStep
     /\ last.probe # "not_called"
     /\ ~IsNaN(LastProposed.delta)
     /\ ~cast_shape(colliders, last.transform[last.unit].translation, <<0, 0>>,
                    last.unit, FALSE)) =>
        /\ (last.probe = "hit") <=>
               cast_shape(colliders, last.transform[last.unit].translation,
                          LastProposed.delta, last.unit, FALSE)
        /\ last.probe = "hit" => transform[last.unit] = last.transform[last.unit]
        /\ last.probe = "none" =>
               transform[last.unit] = [translation |-> LastProposed.translation,
                                       rotation |-> LastProposed.rotation]

====
